---- MODULE Spec2Model ----
(***************************************************************************)
(* A model of geetiles/utils.py: the range and value remapping transforms, *)
(* the region hash and the binary-mask coordinate pipeline.                *)
(*                                                                         *)
(* Arrays are one-dimensional sequences of integers (a shape is a length)   *)
(* of a dtype wide enough for every value written into them; a Python dict *)
(* is the sequence of its (key, value) pairs in insertion order, with      *)
(* distinct keys.                                                          *)
(***************************************************************************)
EXTENDS Integers, Sequences, FiniteSets, TLC

VARIABLES
    \* apply_range_map
    rpc,        \* position in apply_range_map
    array,      \* the caller's input array
    arrayIn,    \* the contents of the input array when the call started
    range_map,  \* the range_map argument: [kind, vals]
    r,          \* the output buffer, None until allocated
    ri,         \* the loop index i
    touched,    \* whether the input array has been read (shape, dtype or cells)
    result,     \* the returned array, None until returned
    \* apply_value_map
    varray,     \* the input array
    value_map,  \* the caller's value_map object: [kind, data]
    vm0,        \* the value_map object as it was before the first call
    resolved,   \* the map the last call remapped with
    init_val,   \* the init_val of the last call
    outs,       \* the arrays returned so far, one per call
    verr,       \* whether the last call raised ValueError
    \* get_region_hash, get_regionlist_hash
    digest,     \* the sha256 hexdigest, as hex digit values, leading zeros dropped
    hkey,       \* the returned hash string, None until returned
    hfn,        \* the function that returned it
    \* get_region_hash on a region and on its translation
    region,     \* the vertices of the region, in resolution steps
    shift,      \* the translation <<dx, dy>>, <<>> until translated
    moved,      \* the translated region
    h1,         \* get_region_hash(region), <<>> until computed
    h2,         \* get_region_hash(moved), <<>> until computed
    \* get_binary_mask on a geometry and on its vertical mirror
    geometry,     \* the parts of the geometry, each its exterior vertices
    raster_shape, \* <<height, width>>
    mask,         \* get_binary_mask(geometry, raster_shape), <<>> until returned
    mirror_mask   \* get_binary_mask(mirror of geometry, raster_shape)

rangeVars == <<rpc, array, arrayIn, range_map, r, ri, touched, result>>
valueVars == <<varray, value_map, vm0, resolved, init_val, outs, verr>>
hashVars == <<digest, hkey, hfn>>
regionVars == <<region, shift, moved, h1, h2>>
maskVars == <<geometry, raster_shape, mask, mirror_mask>>
vars == <<rangeVars, valueVars, hashVars, regionVars, maskVars>>
notRange == <<valueVars, hashVars, regionVars, maskVars>>
notValue == <<rangeVars, hashVars, regionVars, maskVars>>
notHash == <<rangeVars, valueVars, regionVars, maskVars>>
notRegion == <<rangeVars, valueVars, hashVars, maskVars>>
notMask == <<rangeVars, valueVars, hashVars, regionVars>>

None == "None"

\* ---------------------------------------------------------------- bounds
MaxLen == 3        \* longest input array of apply_range_map
MaxCell == 4       \* largest cell value of apply_range_map's input
MaxBreaks == 3     \* longest range_map
MaxBreak == 3      \* largest breakpoint
MaxVLen == 4       \* longest input array of apply_value_map
MaxListLen == 2    \* longest list value_map
MaxPairs == 2      \* most pairs of a dict value_map
MaxCalls == 2      \* calls of apply_value_map on the same objects
MaxDigestLen == 14 \* most significant hex digits of a digest
Resolution == 4    \* resolution steps per rounding unit: a step is 1e-5 / 4
MaxX == 5          \* largest x of a region vertex, in steps
MaxY == 2          \* largest y of a region vertex, in steps
MaxShift == 5      \* largest translation along an axis, in steps
MaxDim == 2        \* largest raster height and width

SeqsUpTo(S, n) == UNION {[1..k -> S] : k \in 0..n}

\* ------------------------------------------------------- apply_range_map
RangeArrays == SeqsUpTo(0..MaxCell, MaxLen)
RangeMaps ==
    {[kind |-> "flat", vals |-> v] : v \in SeqsUpTo(1..MaxBreak, MaxBreaks)}
    \cup {[kind |-> "nested", vals |-> <<>>], [kind |-> "text", vals |-> <<>>]}

\* np.alltrue(range_map[1:] - range_map[:-1] > 0), too tolerant: >= 0
StrictlyIncreasing_AllowsRepeats(b) ==
    \A k \in 1..(Len(b) - 1) : b[k + 1] - b[k] >= 0

\* np.alltrue(range_map[1:] - range_map[:-1] > 0)
StrictlyIncreasing(b) ==
    \A k \in 1..(Len(b) - 1) : b[k + 1] - b[k] > 0

\* the boolean index of iteration i (0-based), with > for >=
RangeMask_Exclusive(a, b, i) ==
    IF i = Len(b) - 1
    THEN {j \in 1..Len(a) : a[j] > b[i + 1]}
    ELSE {j \in 1..Len(a) : a[j] > b[i + 1] /\ a[j] < b[i + 2]}

\* the boolean index of iteration i (0-based): the cells iteration i writes
RangeMask(a, b, i) ==
    IF i = Len(b) - 1
    THEN {j \in 1..Len(a) : a[j] >= b[i + 1]}
    ELSE {j \in 1..Len(a) : a[j] >= b[i + 1] /\ a[j] < b[i + 2]}

\* np.zeros_like(array)
ZerosLike(a) == [j \in 1..Len(a) |-> 0]

\* r[idx] = v, idx the cells a boolean index selects
Assign(buf, idx, v) == [j \in 1..Len(buf) |-> IF j \in idx THEN v ELSE buf[j]]

RangeInit ==
    /\ rpc = "validate"
    /\ array \in RangeArrays
    /\ arrayIn = array
    /\ range_map \in RangeMaps
    /\ r = None
    /\ ri = 0
    /\ touched = FALSE
    /\ result = None

\* lines 197-208: the three validations, each raising ValueError
RangeValidate ==
    /\ rpc = "validate"
    /\ \/ /\ range_map.kind = "nested"
          /\ rpc' = "raised"
       \/ /\ range_map.kind = "text"
          /\ rpc' = "raised"
       \/ /\ range_map.kind = "flat"
          /\ ~StrictlyIncreasing(range_map.vals)
          /\ rpc' = "raised"
       \/ /\ range_map.kind = "flat"
          /\ StrictlyIncreasing(range_map.vals)
          /\ rpc' = "alloc"
    /\ UNCHANGED <<array, arrayIn, range_map, r, ri, touched, result>>

\* line 210
RangeAlloc ==
    /\ rpc = "alloc"
    /\ r' = ZerosLike(array)
    /\ touched' = TRUE
    /\ ri' = 0
    /\ rpc' = "loop"
    /\ UNCHANGED <<array, arrayIn, range_map, result>>

\* lines 211-215: one iteration of the loop
RangeLoopStep ==
    /\ rpc = "loop"
    /\ ri < Len(range_map.vals)
    /\ r' = Assign(r, RangeMask(array, range_map.vals, ri), ri + 1)
    /\ ri' = ri + 1
    /\ UNCHANGED <<rpc, array, arrayIn, range_map, touched, result>>

\* line 217
RangeReturn ==
    /\ rpc = "loop"
    /\ ri = Len(range_map.vals)
    /\ result' = r
    /\ rpc' = "returned"
    /\ UNCHANGED <<array, arrayIn, range_map, r, ri, touched>>

ValueIdle ==
    /\ varray = <<>>
    /\ value_map = None
    /\ vm0 = None
    /\ resolved = None
    /\ init_val = 0
    /\ outs = <<>>
    /\ verr = FALSE

HashIdle ==
    /\ digest = <<>>
    /\ hkey = None
    /\ hfn = None

RegionIdle ==
    /\ region = <<>>
    /\ shift = <<>>
    /\ moved = <<>>
    /\ h1 = <<>>
    /\ h2 = <<>>

MaskIdle ==
    /\ geometry = <<>>
    /\ raster_shape = <<1, 1>>
    /\ mask = <<>>
    /\ mirror_mask = <<>>

RangeNext ==
    \/ (RangeValidate /\ UNCHANGED notRange)
    \/ (RangeAlloc /\ UNCHANGED notRange)
    \/ (RangeLoopStep /\ UNCHANGED notRange)
    \/ (RangeReturn /\ UNCHANGED notRange)

RangeStart == RangeInit /\ ValueIdle /\ HashIdle /\ RegionIdle /\ MaskIdle

SpecRange == RangeStart /\ [][RangeNext]_vars

\* ------------------------------------------------------- apply_value_map
Codes == 0..3       \* the integer codes of arrays and list value_maps
DictInts == 0..2    \* the keys and values of dict value_maps

Keys(m) == {m[p][1] : p \in 1..Len(m)}
Values(m) == {m[p][2] : p \in 1..Len(m)}
\* value_map[k]
Lookup(m, k) == m[CHOOSE p \in 1..Len(m) : m[p][1] = k][2]

Dicts == {d \in SeqsUpTo(DictInts \X DictInts, MaxPairs) :
             \A p, q \in 1..Len(d) : d[p][1] = d[q][1] => p = q}
ValueMaps ==
    {[kind |-> "list", data |-> l] : l \in SeqsUpTo(Codes, MaxListLen)}
    \cup {[kind |-> "dict", data |-> d] : d \in Dicts}
    \cup {[kind |-> "badlist", data |-> <<>>],
          [kind |-> "badkeys", data |-> <<>>],
          [kind |-> "badvals", data |-> <<>>]}
ValueArrays == SeqsUpTo(Codes, MaxVLen)

\* sorted(value_map)
Sorted(l) == SortSeq(l, LAMBDA a, b : a < b)

\* the list branch with the map built from value to position
ResolveList_ValueToPosition(l) ==
    LET s == Sorted(l)
        z == IF \E p \in 1..Len(s) : s[p] = 0 THEN s ELSE <<0>> \o s
    IN  [p \in 1..Len(z) |-> <<z[p], p - 1>>]

\* lines 150-156: sort, add zero if not in the list, {i: value_map[i]}
ResolveList(l) ==
    LET s == Sorted(l)
        z == IF \E p \in 1..Len(s) : s[p] = 0 THEN s ELSE <<0>> \o s
    IN  [p \in 1..Len(z) |-> <<p - 1, z[p]>>]

\* the dict branch adding zero whenever 0 is not a key
ResolveDict_KeyOnly(d) ==
    IF 0 \notin Keys(d) THEN Append(d, <<0, 0>>) ELSE d

\* lines 166-168: value_map[0] = 0 when 0 is neither a key nor a value
ResolveDict(d) ==
    IF 0 \notin Keys(d) /\ 0 \notin Values(d) THEN Append(d, <<0, 0>>) ELSE d

\* lines 170-173
InitVal(m) ==
    IF 0 \in Keys(m) /\ Lookup(m, 0) = 0 THEN 0 ELSE m[1][1]

\* np.ones_like(array)*init_val
Filled(a, iv) == [j \in 1..Len(a) |-> iv]

RECURSIVE RemapFrom(_, _, _, _, _)
\* lines 177-181: the loop from pair p on, over the buffer buf
RemapFrom(buf, a, m, iv, p) ==
    IF p > Len(m) THEN buf
    ELSE IF m[p][2] = iv THEN RemapFrom(buf, a, m, iv, p + 1)
    ELSE RemapFrom(Assign(buf, {j \in 1..Len(a) : a[j] = m[p][1]}, m[p][2]),
                   a, m, iv, p + 1)

\* the remapping pass starting from a copy of the array, not from init_val
Remap_Passthrough(a, m, iv) == RemapFrom(a, a, m, iv, 1)

\* lines 175-183
Remap(a, m, iv) == RemapFrom(Filled(a, iv), a, m, iv, 1)

\* the dict call with init_val taken before zero is added
DictResult_InitBeforeZero(a, d) ==
    Remap(a, ResolveDict(d), IF Len(d) = 0 THEN 0 ELSE InitVal(d))

\* lines 159-183 for a dict value_map
DictResult(a, d) == Remap(a, ResolveDict(d), InitVal(ResolveDict(d)))

\* lines 147-156 and 170-183 for a list value_map
ListResult(a, l) == Remap(a, ResolveList(l), InitVal(ResolveList(l)))

ValueInit ==
    /\ varray \in ValueArrays
    /\ value_map \in ValueMaps
    /\ vm0 = value_map
    /\ resolved = None
    /\ init_val = 0
    /\ outs = <<>>
    /\ verr = FALSE

\* lines 147-156, 170-183: the list is sorted into a new list, the caller's
\* list is left as it was
ValueCallList ==
    /\ value_map.kind = "list"
    /\ Len(outs) < MaxCalls
    /\ resolved' = ResolveList(value_map.data)
    /\ init_val' = InitVal(resolved')
    /\ outs' = Append(outs, ListResult(varray, value_map.data))
    /\ UNCHANGED <<varray, value_map, vm0, verr>>

\* lines 159-183: value_map[0] = 0 writes into the caller's dict
ValueCallDict ==
    /\ value_map.kind = "dict"
    /\ Len(outs) < MaxCalls
    /\ resolved' = ResolveDict(value_map.data)
    /\ value_map' = [value_map EXCEPT !.data = resolved']
    /\ init_val' = InitVal(resolved')
    /\ outs' = Append(outs, DictResult(varray, value_map.data))
    /\ UNCHANGED <<varray, vm0, verr>>

\* lines 148-149, 160-164: ValueError for a non-int entry, key or value
ValueCallRaise ==
    /\ value_map.kind \in {"badlist", "badkeys", "badvals"}
    /\ ~verr
    /\ verr' = TRUE
    /\ UNCHANGED <<varray, value_map, vm0, resolved, init_val, outs>>

RangeIdle ==
    /\ rpc = "idle"
    /\ array = <<>>
    /\ arrayIn = <<>>
    /\ range_map = None
    /\ r = None
    /\ ri = 0
    /\ touched = FALSE
    /\ result = None

ValueNext ==
    \/ (ValueCallList /\ UNCHANGED notValue)
    \/ (ValueCallDict /\ UNCHANGED notValue)
    \/ (ValueCallRaise /\ UNCHANGED notValue)

ValueStart == ValueInit /\ RangeIdle /\ HashIdle /\ RegionIdle /\ MaskIdle

SpecValue == ValueStart /\ [][ValueNext]_vars

\* ------------------------------------- get_region_hash, get_regionlist_hash
\* An unbounded int is the sequence of its decimal digits, least significant
\* first, without leading zeros: 0 is <<>>.
HashModDigits == 15     \* 10**15
HashWidth == 13         \* zfill(13)
HexChar == <<"0", "1", "2", "3", "4", "5", "6", "7",
             "8", "9", "a", "b", "c", "d", "e", "f">>

RECURSIVE CarryDigits(_)
CarryDigits(c) == IF c = 0 THEN <<>> ELSE <<c % 10>> \o CarryDigits(c \div 10)

RECURSIVE MulAddFrom(_, _, _)
\* the digits of n * 16 + carry from digit p on
MulAddFrom(n, p, carry) ==
    IF p > Len(n) THEN CarryDigits(carry)
    ELSE <<(n[p] * 16 + carry) % 10>>
             \o MulAddFrom(n, p + 1, (n[p] * 16 + carry) \div 10)

RECURSIVE IntOfHexFrom(_, _, _)
IntOfHexFrom(hexs, p, acc) ==
    IF p > Len(hexs) THEN acc
    ELSE IntOfHexFrom(hexs, p + 1, MulAddFrom(acc, 1, hexs[p]))

\* int(hexdigest, 16)
IntOfHex(hexs) == IntOfHexFrom(hexs, 1, <<>>)

RECURSIVE Normalize(_)
Normalize(n) ==
    IF n # <<>> /\ n[Len(n)] = 0 THEN Normalize(SubSeq(n, 1, Len(n) - 1)) ELSE n

\* n % 10**digits
ModPow10(n, digits) ==
    Normalize(SubSeq(n, 1, IF Len(n) < digits THEN Len(n) ELSE digits))

\* % 10**16
Reduce_OneDigitMore(n) == ModPow10(n, HashModDigits + 1)

\* lines 103, 113: % 10**15
Reduce(n) == ModPow10(n, HashModDigits)

RECURSIVE DivFrom(_, _, _)
\* the quotient digits 1..p and the remainder of n by 16, rem carried from above
DivFrom(n, p, rem) ==
    IF p = 0 THEN [q |-> <<>>, rem |-> rem]
    ELSE LET cur == rem * 10 + n[p]
             rest == DivFrom(n, p - 1, cur % 16)
         IN  [q |-> Append(rest.q, cur \div 16), rem |-> rest.rem]

RECURSIVE HexDigitsOf(_)
HexDigitsOf(n) ==
    IF n = <<>> THEN <<>>
    ELSE LET d == DivFrom(n, Len(n), 0)
         IN  Append(HexDigitsOf(Normalize(d.q)), HexChar[d.rem + 1])

\* str(hex(k))[2:]
HexOf(n) == IF n = <<>> THEN <<"0">> ELSE HexDigitsOf(n)

RECURSIVE ZFill(_, _)
\* .zfill(width)
ZFill(s, width) == IF Len(s) >= width THEN s ELSE ZFill(<<"0">> \o s, width)

\* lines 103-104, 113-114, from the digest on
HashKey(hexs) == ZFill(HexOf(Reduce(IntOfHex(hexs))), HashWidth)

\* the digests 10**15 - 1 and 10**15, and the empty prefix
SeedDigests ==
    {<<>>,
     <<3, 8, 13, 7, 14, 10, 4, 12, 6, 7, 15, 15, 15>>,
     <<3, 8, 13, 7, 14, 10, 4, 12, 6, 8, 0, 0, 0>>}
AppendedHex == {0, 15}

HashInit ==
    /\ digest \in SeedDigests
    /\ hkey = None
    /\ hfn = None

\* the digest is sha256 of a text: any value; one more hex digit of it
DigestAppend ==
    /\ hkey = None
    /\ Len(digest) < MaxDigestLen
    /\ \E h \in AppendedHex :
          /\ (digest = <<>> => h # 0)
          /\ digest' = Append(digest, h)
    /\ UNCHANGED <<hkey, hfn>>

\* lines 102-105
GetRegionHash ==
    /\ hkey = None
    /\ hkey' = HashKey(digest)
    /\ hfn' = "get_region_hash"
    /\ UNCHANGED digest

\* lines 111-115
GetRegionlistHash ==
    /\ hkey = None
    /\ hkey' = HashKey(digest)
    /\ hfn' = "get_regionlist_hash"
    /\ UNCHANGED digest

HashNext ==
    \/ (DigestAppend /\ UNCHANGED notHash)
    \/ (GetRegionHash /\ UNCHANGED notHash)
    \/ (GetRegionlistHash /\ UNCHANGED notHash)

HashStart == HashInit /\ RangeIdle /\ ValueIdle /\ RegionIdle /\ MaskIdle

SpecHash == HashStart /\ [][HashNext]_vars

\* ------------------------------------------- get_region_hash and translation
\* A coordinate is a whole number of resolution steps, Resolution of them to
\* the rounding unit 1e-5.  A rounded float is [units, negzero]: its value in
\* rounding units and whether it is the negative zero, which str() renders as
\* "-0." and so tells apart from "0.".
Abs(x) == IF x < 0 THEN -x ELSE x

\* rounding to the nearest multiple of unit steps, ties to even, floats kept
\* with their sign
RoundTo(x, unit) ==
    LET q == x \div unit
        rem == x % unit
        n == IF 2 * rem < unit THEN q
             ELSE IF 2 * rem > unit THEN q + 1
             ELSE IF q % 2 = 0 THEN q ELSE q + 1
    IN  [steps |-> n * unit, negzero |-> (n = 0 /\ x < 0)]

\* .round(4)
Round5_FourDecimals(x) == RoundTo(x, 10 * Resolution)

\* line 102: .round(5)
Round5(x) == RoundTo(x, Resolution)

SetMin(S) == CHOOSE x \in S : \A y \in S : x <= y
SetMax(S) == CHOOSE x \in S : \A y \in S : x >= y

\* line 102: region.envelope.boundary.coords, the ring of the bounding box
EnvelopeBoundary(g) ==
    LET xs == {g[p][1] : p \in 1..Len(g)}
        ys == {g[p][2] : p \in 1..Len(g)}
    IN  <<<<SetMin(xs), SetMin(ys)>>, <<SetMax(xs), SetMin(ys)>>,
          <<SetMax(xs), SetMax(ys)>>, <<SetMin(xs), SetMax(ys)>>,
          <<SetMin(xs), SetMin(ys)>>>>

\* line 102: str(np.r_[...].round(5)), the text of the rounded ring, each
\* rounded coordinate rendered in full
RegionText(g) ==
    LET ring == EnvelopeBoundary(g)
    IN  [p \in 1..Len(ring) |-> <<Round5(ring[p][1]), Round5(ring[p][2])>>]

\* lines 103-104: the key of a text, the digest taken as collision-free on
\* the texts: distinct texts get distinct keys, here the text itself
KeyOfText(text) == text

\* lines 102-105
RegionHash(g) == KeyOfText(RegionText(g))

\* all boundary coordinates moved by <<dx, dy>>
Translated(g, dx, dy) == [p \in 1..Len(g) |-> <<g[p][1] + dx, g[p][2] + dy>>]

\* two-vertex regions whose envelope is a rectangle
Regions ==
    {<<<<x1, y1>>, <<x2, y2>>>> :
        x1 \in (-3)..MaxX, x2 \in (-3)..MaxX, y1 \in (-1)..MaxY, y2 \in (-1)..MaxY}
RectRegions == {g \in Regions : g[1][1] # g[2][1] /\ g[1][2] # g[2][2]}

RegionInit ==
    /\ region \in RectRegions
    /\ shift = <<>>
    /\ moved = <<>>
    /\ h1 = <<>>
    /\ h2 = <<>>

\* get_region_hash(region)
HashOriginal ==
    /\ h1 = <<>>
    /\ h1' = RegionHash(region)
    /\ UNCHANGED <<region, shift, moved, h2>>

\* the caller translates the region
Translate ==
    /\ h1 # <<>>
    /\ shift = <<>>
    /\ \E dx, dy \in (-MaxShift)..MaxShift :
          /\ shift' = <<dx, dy>>
          /\ moved' = Translated(region, dx, dy)
    /\ UNCHANGED <<region, h1, h2>>

\* get_region_hash(moved)
HashMoved ==
    /\ shift # <<>>
    /\ h2 = <<>>
    /\ h2' = RegionHash(moved)
    /\ UNCHANGED <<region, shift, moved, h1>>

RegionNext ==
    \/ (HashOriginal /\ UNCHANGED notRegion)
    \/ (Translate /\ UNCHANGED notRegion)
    \/ (HashMoved /\ UNCHANGED notRegion)

RegionStart == RegionInit /\ RangeIdle /\ ValueIdle /\ HashIdle /\ MaskIdle

SpecRegion == RegionStart /\ [][RegionNext]_vars

\* ----------------------------------------------------------- get_binary_mask
\* A geometry is the sequence of its parts, a part the sequence of the
\* vertices <<x, y>> of its exterior ring (closed from the last vertex to the
\* first), in whole grid steps of any size.  A normalized or scaled
\* coordinate is the exact fraction <<numerator, denominator>>,
\* denominator > 0, that the float64 result approximates.
GridX == 0..1           \* the x of part vertices
GridY == 0..2           \* the y of part vertices
PartCounts == {1, 2}    \* the parts of a geometry

\* line 82: the coords of all parts, per axis
AxisCoords(pols, a) ==
    UNION {{pols[k][v][a] : v \in 1..Len(pols[k])} : k \in 1..Len(pols)}

\* line 83: (coords - min) / (max - min) with the bounding box of all parts
Normalized(pols) ==
    LET lo == [a \in 1..2 |-> SetMin(AxisCoords(pols, a))]
        hi == [a \in 1..2 |-> SetMax(AxisCoords(pols, a))]
    IN  [k \in 1..Len(pols) |->
            [v \in 1..Len(pols[k]) |->
                [a \in 1..2 |-> <<pols[k][v][a] - lo[a], hi[a] - lo[a]>>]]]

\* y left as it is
FlipY_NoFlip(cpols) == cpols

\* lines 86-87: p[:,1] = 1 - p[:,1]
FlipY(cpols) ==
    [k \in 1..Len(cpols) |->
        [v \in 1..Len(cpols[k]) |->
            <<cpols[k][v][1],
              <<cpols[k][v][2][2] - cpols[k][v][2][1], cpols[k][v][2][2]>>>>]]

\* line 90: p * raster_shape[::-1], x by the width and y by the height
Scaled(cpols, shape) ==
    [k \in 1..Len(cpols) |->
        [v \in 1..Len(cpols[k]) |->
            <<<<cpols[k][v][1][1] * shape[2], cpols[k][v][1][2]>>,
              <<cpols[k][v][2][1] * shape[1], cpols[k][v][2][2]>>>>]]

\* lines 82-90: the parts in raster coordinates, <<column, row>>
RasterParts(pols, shape) == Scaled(FlipY(Normalized(pols)), shape)

\* A raster part and the centre of pixel <<row, col>> (0-based) on a common
\* integer grid: every x times twice the x denominator, every y times twice
\* the y denominator.
GridPart(part) ==
    [v \in 1..Len(part) |-> <<2 * part[v][1][1], 2 * part[v][2][1]>>]
GridCentre(part, row, col) ==
    <<(2 * col + 1) * part[1][1][2], (2 * row + 1) * part[1][2][2]>>

Cross(a, b, q) ==
    (b[1] - a[1]) * (q[2] - a[2]) - (b[2] - a[2]) * (q[1] - a[1])
Between(u, w, x) == (u <= x /\ x <= w) \/ (w <= x /\ x <= u)
NextVertex(ring, v) == ring[IF v = Len(ring) THEN 1 ELSE v + 1]

\* q lies on an edge of the ring
OnRing(ring, q) ==
    \E v \in 1..Len(ring) :
        /\ Cross(ring[v], NextVertex(ring, v), q) = 0
        /\ Between(ring[v][1], NextVertex(ring, v)[1], q[1])
        /\ Between(ring[v][2], NextVertex(ring, v)[2], q[2])

\* q, not on the ring, lies inside it: an odd number of edges cross the ray
\* from q towards smaller x
InsideRing(ring, q) ==
    Cardinality({v \in 1..Len(ring) :
        LET a == ring[v]
            b == NextVertex(ring, v)
        IN  \/ (a[2] <= q[2] /\ q[2] < b[2] /\ Cross(a, b, q) < 0)
            \/ (b[2] <= q[2] /\ q[2] < a[2] /\ Cross(a, b, q) > 0)}) % 2 = 1

\* where the centre of pixel <<row, col>> lies: in the interior of a raster
\* part ("in"), else on the boundary of one ("edge"), else outside all ("out")
CentreClass(rparts, row, col) ==
    LET on == {k \in 1..Len(rparts) :
                  OnRing(GridPart(rparts[k]), GridCentre(rparts[k], row, col))}
    IN  IF \E k \in (1..Len(rparts)) \ on :
              InsideRing(GridPart(rparts[k]), GridCentre(rparts[k], row, col))
        THEN "in"
        ELSE IF on # {} THEN "edge" ELSE "out"

RECURSIVE MasksOver(_, _)
\* the masks of the first rows rows whose pixels hold one of the values burn
\* allows them
MasksOver(burn, rows) ==
    IF rows = 0 THEN {<<>>}
    ELSE {Append(m, f) :
             m \in MasksOver(burn, rows - 1),
             f \in {g \in [DOMAIN burn[rows] -> {0, 1}] :
                        \A col \in DOMAIN g : g[col] \in burn[rows][col]}}

\* line 94: rasterize(cpols, raster_shape, fill=0, default_value=1): the
\* masks the call may return.  A pixel whose centre is inside a part is 1,
\* one whose centre is outside every part is 0.  A pixel whose centre lies
\* exactly on a part boundary may come out either way: the float64
\* operations of lines 83-90 round, so the computed boundary falls on either
\* side of the centre (for y from 0.2 to 1.2, an edge at y = 0.9 and height
\* 5 the row coordinate is 1.5000000000000002, and 3.5000000000000004 for
\* the mirror, both below the centre), and where it falls exactly on the
\* centre the rasterizer's rule for ties, which is not part of this module,
\* decides.  Each call returns one of these masks.
Rasterized(rparts, shape) ==
    LET burn == [row \in 1..shape[1] |-> [col \in 1..shape[2] |->
                    CASE CentreClass(rparts, row - 1, col - 1) = "in" -> {1}
                      [] CentreClass(rparts, row - 1, col - 1) = "out" -> {0}
                      [] OTHER -> {0, 1}]]
    IN  MasksOver(burn, shape[1])

\* the geometry reflected in y
Mirror(pols) ==
    [k \in 1..Len(pols) |->
        [v \in 1..Len(pols[k]) |-> <<pols[k][v][1], -pols[k][v][2]>>]]

\* triangles of non-zero area, vertices in one fixed order
Points == GridX \X GridY
Before(u, w) == u[1] < w[1] \/ (u[1] = w[1] /\ u[2] < w[2])
Triangles ==
    {t \in [1..3 -> Points] :
        /\ Before(t[1], t[2]) /\ Before(t[2], t[3])
        /\ Cross(t[1], t[2], t[3]) # 0}
Geometries == UNION {[1..n -> Triangles] : n \in PartCounts}

MaskInit ==
    /\ geometry \in Geometries
    /\ raster_shape \in (1..MaxDim) \X (1..MaxDim)
    /\ mask = <<>>
    /\ mirror_mask = <<>>

\* lines 74-95 on the geometry
GetBinaryMask ==
    /\ mask = <<>>
    /\ mask' \in Rasterized(RasterParts(geometry, raster_shape), raster_shape)
    /\ UNCHANGED <<geometry, raster_shape, mirror_mask>>

\* lines 74-95 on the vertical mirror of the geometry
GetBinaryMaskOfMirror ==
    /\ mask # <<>>
    /\ mirror_mask = <<>>
    /\ mirror_mask' \in
           Rasterized(RasterParts(Mirror(geometry), raster_shape), raster_shape)
    /\ UNCHANGED <<geometry, raster_shape, mask>>

MaskNext ==
    \/ (GetBinaryMask /\ UNCHANGED notMask)
    \/ (GetBinaryMaskOfMirror /\ UNCHANGED notMask)

MaskStart == MaskInit /\ RangeIdle /\ ValueIdle /\ HashIdle /\ RegionIdle

SpecMask == MaskStart /\ [][MaskNext]_vars

\* ---------------------------------------------------------------- C1
\* the class of x by the three cases of the contract
Class(x, b) ==
    IF Len(b) = 0 THEN 0
    ELSE IF x < b[1] THEN 0
    ELSE IF x >= b[Len(b)] THEN Len(b)
    ELSE CHOOSE c \in 1..(Len(b) - 1) : b[c] <= x /\ x < b[c + 1]

C2_RejectBeforeTouch ==
    (range_map.kind = "flat" /\ rpc # "validate"
        /\ \E k \in 1..(Len(range_map.vals) - 1) :
               range_map.vals[k + 1] <= range_map.vals[k]) =>
        /\ rpc = "raised"
        /\ r = None
        /\ result = None
        /\ touched = FALSE
        /\ array = arrayIn

\* a call with an out-of-order pair has raised
C2_Witness ==
    /\ rpc = "raised"
    /\ range_map.kind = "flat"
    /\ \E k \in 1..(Len(range_map.vals) - 1) :
          range_map.vals[k + 1] < range_map.vals[k]

\* ---------------------------------------------------------------- C3
\* C3: each output cell of apply_value_map is map[x] when the input cell x is
\* a key of the resolved map and init_val otherwise (never the original x as
\* such), init_val being 0 when the resolved map sends 0 to 0 and else the
\* first key in iteration order.
C3_KeyedOrInit ==
    \A c \in 1..Len(outs) :
        /\ init_val = (IF \E p \in 1..Len(resolved) :
                              resolved[p] = <<0, 0>>
                       THEN 0 ELSE resolved[1][1])
        /\ Len(outs[c]) = Len(varray)
        /\ \A j \in 1..Len(varray) :
              outs[c][j] = (IF \E p \in 1..Len(resolved) :
                                   resolved[p][1] = varray[j]
                            THEN Lookup(resolved, varray[j])
                            ELSE init_val)

\* a dict call whose init_val is a first key other than 0 has output an
\* unkeyed cell as init_val, a keyed cell whose pair was skipped and a keyed
\* cell that was overwritten
C3_Witness ==
    /\ Len(outs) >= 1
    /\ vm0.kind = "dict"
    /\ init_val # 0
    /\ \E j1, j2, j3 \in 1..Len(varray) :
          /\ varray[j1] \notin Keys(resolved)
          /\ outs[1][j1] = init_val /\ varray[j1] # init_val
          /\ varray[j2] \in Keys(resolved)
          /\ Lookup(resolved, varray[j2]) = init_val
          /\ varray[j3] \in Keys(resolved)
          /\ Lookup(resolved, varray[j3]) # init_val

\* ---------------------------------------------------------------- C4
\* C4 as claimed: the resolved map always has 0 as a key.
C4_ZeroAlwaysKey ==
    Len(outs) >= 1 => 0 \in Keys(resolved)

\* C4 amended: the resolved map has 0 as a key for every list, and for a dict
\* exactly when the caller's dict had key 0 or had no value 0; 0 -> 0 is
\* appended to a dict only when 0 was neither a key nor a value of it.
C4_ZeroKeyUnlessZeroValue ==
    Len(outs) >= 1 =>
        /\ vm0.kind = "list" => resolved[1][1] = 0
        /\ vm0.kind = "dict" =>
              /\ 0 \in Keys(resolved) <=>
                    (0 \in Keys(vm0.data) \/ 0 \notin Values(vm0.data))
              /\ resolved # vm0.data <=>
                    (0 \notin Keys(vm0.data) /\ 0 \notin Values(vm0.data))
              /\ resolved # vm0.data => resolved = Append(vm0.data, <<0, 0>>)

\* a dict with 0 as a value and not as a key has been resolved without key 0,
\* or a dict with neither has been given 0 -> 0
C4_Witness ==
    /\ Len(outs) >= 1
    /\ vm0.kind = "dict"
    /\ 0 \notin Keys(vm0.data)
    /\ 0 \in Values(vm0.data)
    /\ 0 \notin Keys(resolved)

C6_ListValueToPosition ==
    (Len(outs) >= 1 /\ vm0.kind = "list"
        /\ \A p, q \in 1..Len(vm0.data) :
              vm0.data[p] = vm0.data[q] => p = q) =>
        LET s == Sorted(vm0.data)
            L == IF \E p \in 1..Len(s) : s[p] = 0 THEN s ELSE <<0>> \o s
        IN  \A j \in 1..Len(varray) : \A p \in 1..Len(L) :
                varray[j] = L[p] => outs[1][j] = p - 1

\* ---------------------------------------------------------------- C7
\* C7: a second call of apply_value_map with the same array and the same
\* value_map object returns the same array as the first, also when the first
\* call wrote 0 -> 0 into the caller's dict.
C7_SameOutputTwice ==
    \A c \in 1..Len(outs) : outs[c] = outs[1]

\* the second call has returned for a dict the first call wrote 0 -> 0 into
C7_Witness ==
    /\ Len(outs) >= 2
    /\ vm0.kind = "dict"
    /\ vm0.data # <<>>
    /\ value_map.data # vm0.data
    /\ \E j \in 1..Len(varray) : varray[j] \notin Keys(resolved)

\* ---------------------------------------------------------------- C8
\* C8: for every digest the string returned by get_region_hash and by
\* get_regionlist_hash has exactly 13 characters, each a lowercase
\* hexadecimal digit.
C8_ThirteenHexChars ==
    hkey # None =>
        /\ Len(hkey) = 13
        /\ \A p \in 1..Len(hkey) : \E h \in 1..16 : hkey[p] = HexChar[h]

\* a digest of more than 13 hex digits was reduced to a key that needs no
\* padding
C8_Witness ==
    /\ hkey # None
    /\ Len(digest) > 13
    /\ hkey[1] # "0"

MasksWellShaped ==
    \A m \in {mask, mirror_mask} :
        /\ DOMAIN m = 1..raster_shape[1]
        /\ \A row \in DOMAIN m :
              /\ DOMAIN m[row] = 1..raster_shape[2]
              /\ \A col \in DOMAIN m[row] : m[row][col] \in {0, 1}

\* the vertices of largest y are at raster row coordinate 0, those of
\* smallest y at row coordinate height
ExtremesPlaced ==
    LET rparts == RasterParts(geometry, raster_shape)
        top == SetMax(AxisCoords(geometry, 2))
        bottom == SetMin(AxisCoords(geometry, 2))
    IN  \A k \in 1..Len(geometry) : \A v \in 1..Len(geometry[k]) :
            /\ geometry[k][v][2] = top => rparts[k][v][2][1] = 0
            /\ geometry[k][v][2] = bottom
                   => rparts[k][v][2][1] = raster_shape[1] * rparts[k][v][2][2]

====
